---- MODULE Spec2Model ----
(***************************************************************************)
(* Model of the channel-access server bridge: one PV object with its       *)
(* PvProxy, one AsyncWrite token with its AsyncWriteProxy, one server with *)
(* its ServerProxy, the host-runtime lock (GIL) and the threads that run   *)
(* native callbacks and host calls.                                        *)
(*                                                                         *)
(* A reference count is kept split by owner: the references the host code  *)
(* holds, and the references taken on behalf of the native engine          *)
(* (Py_INCREF in give_to_server / give_async_write_to_server, Py_DECREF in *)
(* the destroy callbacks).  The object is deallocated when the sum is 0.   *)
(***************************************************************************)
EXTENDS Integers, FiniteSets, Sequences, TLC

\* ------------------------------------------------------------------ bounds
\* Cap on the references the engine side may accumulate on one object.
MaxRefs == 2
\* The run counter of consecutive give_to_server calls saturates here.
MaxRun == 2
\* Largest element count a handler's count() answers in the model.
MaxCount == 2
\* The counters of complete()/fail() calls saturate here.
MaxPosts == 3

Threads == {"t1", "t2"}
Names == {"a", "b"}
NoThread == "none"

\* ------------------------------------------------------------ vocabulary
PvOps == {"destroy", "bestExternalType", "maxDimension", "maxBound", "read",
          "write", "interestRegister", "interestDelete"}
ServerOps == {"pvExistTest", "pvAttach"}
TokenOps == {"tokenDestroy"}
CallbackOps == PvOps \cup ServerOps \cup TokenOps

\* The handler method a callback looks up first.
Method(o) ==
    CASE o = "destroy" -> "destroy"
      [] o = "bestExternalType" -> "type"
      [] o = "maxDimension" -> "count"
      [] o = "maxBound" -> "count"
      [] o = "read" -> "type"
      [] o = "write" -> "write"
      [] o = "interestRegister" -> "interestRegister"
      [] o = "interestDelete" -> "interestDelete"
      [] o = "pvExistTest" -> "pvExistTest"
      [] o = "pvAttach" -> "pvAttach"
      [] OTHER -> "none"

TypeSyms == {"STRING", "LONG"}
\* count() may answer any integer, a negative one included.
Counts == (0 - 1) .. MaxCount

\* What a handler method can hand back, by the way the bridge consumes it.
\* "raise" is a call that ended with an exception (result NULL).
Outcomes(m) ==
    CASE m = "destroy" -> {"ok", "raise"}
      [] m = "type" -> TypeSyms \cup {"garbage", "raise"}
      [] m = "count" -> {"int", "nonint", "raise"}
      [] m = "read" -> {"attrs", "badattrs", "None", "raise"}
      [] m = "write" -> {"true", "false", "truthErr", "token", "raise"}
      [] m = "interestRegister" -> {"true", "false", "truthErr", "raise"}
      [] m = "interestDelete" -> {"ok", "raise"}
      [] m = "pvExistTest" -> {"EXISTS_HERE", "NOT_EXISTS_HERE", "garbage", "raise"}
      [] m = "pvAttach" -> {"PV", "NO_MEMORY", "NOT_FOUND", "garbage", "raise"}
      [] OTHER -> {}

VARIABLES
    gil,          \* holder of the host-runtime lock, or NoThread
    crashed,      \* the process faulted (undefined behaviour took the fault outcome)
    pc,           \* per thread: position
    op,           \* per thread: the callback being run
    base,         \* per thread: where the callback returns to (idle / servicing)
    stage,        \* per thread: which handler call of the callback is running
    hcalls,       \* per thread: handler methods invoked by this callback
    res1,         \* per thread: outcome of the first handler call
    res2,         \* per thread: outcome of the second handler call (read)
    ival,         \* per thread: the integer a count() call answered
    ret,          \* per thread: value the callback returns to the engine
    rnum,         \* per thread: the number returned (maxDimension, maxBound)
    gst,          \* per thread: what PyGILState_Ensure answered
    acq,          \* per thread: PyGILState_Ensure calls of this callback
    rel,          \* per thread: PyGILState_Release calls of this callback
    own,          \* per thread: what the callback did to ownership
    procRet,      \* per thread: result of the last process() call
    pvName,       \* Pv.name
    pvCtorName,   \* the name passed when the PV was constructed
    pvHeld,       \* Pv.held_by_server
    pvHostRefs,   \* references to the PV held by host code
    pvEngRefs,    \* references to the PV taken for the engine and not released
    pvAlive,      \* the PV object has not been deallocated
    pvRun,        \* give_to_server calls since the last destroy / pv_init
    pvRunBase,    \* pvEngRefs before the first give_to_server of the run
    pvLastOp,     \* the last ownership operation on the PV: init, give, destroy
    gotName,      \* value of the last getName() call
    tokHeld,      \* AsyncWrite.held_by_server
    tokHostRefs,  \* references to the token held by host code
    tokEngRefs,   \* references to the token taken for the engine and not released
    tokAlive,     \* the token object has not been deallocated
    tokPosted,    \* the engine has accepted a completion for the token
    tokStatus,    \* the completion status the engine recorded
    tokPosts,     \* complete()/fail() calls made on the token (saturating)
    tokEffects,   \* posts that changed the engine's completion state
    postRet,      \* result of the last complete()/fail() call
    tokGives,     \* give_async_write_to_server calls since the last teardown
    tokGiveBase,  \* tokEngRefs before the first of them
    tokLastOp,    \* the last ownership operation on the token: init, give, destroy
    gotLocked,    \* the lock was held by some thread during the last getName()
    err,          \* per thread: an error indicator is pending in the host runtime
    sink,         \* per thread: reports this callback wrote to the diagnostic sink
    dflt,         \* per thread: the handler method called was the inherited default
    evPath,       \* how the last postEvent() call ended
    evMask,       \* the event mask argument of the last postEvent() call
    evRet,        \* result of the last postEvent() call
    evAlloc,      \* value containers the last postEvent() call allocated
    evFreed,      \* value containers the last postEvent() call released
    gddLive,      \* value containers allocated by postEvent() and not released
    evErr,        \* an error indicator is set when the last postEvent() call returned
    ctx,          \* the context capsule: none, live (its write call runs), stale
    ctxThread,    \* the thread whose write call the capsule belongs to
    initRet,      \* result of the last AsyncWrite construction
    initCtx,      \* state of the capsule the last construction was given
    initNative,   \* the last construction created a native completion object
    procArg,      \* per thread: the kind of argument of the last process() call
    tokKeeps,     \* what the token stores of the capsule it was constructed from
    postCtx,      \* state of the capsule at the last complete()/fail() call
    touchedFreed, \* a teardown callback used the object after its release freed it
    deallocHeld   \* a proxy was deallocated while the engine-retained flag was true

thrVars == <<pc, op, base, stage, hcalls, res1, res2, ival, ret, rnum, gst, acq, rel,
             own, procRet>>
pvVars == <<pvName, pvCtorName, pvHeld, pvHostRefs, pvEngRefs, pvAlive,
            pvRun, pvRunBase, pvLastOp, gotName, gotLocked>>
tokVars == <<tokHeld, tokHostRefs, tokEngRefs, tokAlive, tokPosted, tokStatus,
             tokPosts, tokEffects, postRet, tokGives, tokGiveBase, tokLastOp>>
errVars == <<err, sink, dflt>>
evVars == <<evPath, evMask, evRet, evAlloc, evFreed, gddLive, evErr>>
ctxVars == <<ctx, ctxThread, initRet, initCtx, initNative>>
auxVars == <<procArg, tokKeeps, postCtx, touchedFreed, deallocHeld>>
vars == <<gil, crashed, thrVars, pvVars, tokVars, errVars, evVars, ctxVars, auxVars>>

\* ------------------------------------------------- ownership (pure parts)
\* Mutant: the retain is not guarded by the flag.
GiveToServer_Always(held, refs) ==
    [held |-> TRUE, refs |-> refs + 1, retv |-> "proxy"]

\* Mutant: the retain is made but the flag is not set.
GiveToServer_NoFlag(held, refs) ==
    [held |-> held,
     refs |-> IF ~held THEN refs + 1 ELSE refs,
     retv |-> "proxy"]

\* give_to_server on a PV instance: retain only when not yet held; the
\* proxy is returned in both cases.
GiveToServer(held, refs) ==
    [held |-> TRUE,
     refs |-> IF ~held THEN refs + 1 ELSE refs,
     retv |-> "proxy"]

\* Mutant: a handler's destroy that raised skips the release.
PvDestroyOwnership_SkipOnRaise(held, refs, r) ==
    IF r = "raise" THEN [held |-> held, refs |-> refs]
    ELSE [held |-> FALSE, refs |-> IF held THEN refs - 1 ELSE refs]

\* Mutant: the release is not guarded by the flag.
PvDestroyOwnership_Always(held, refs, r) ==
    [held |-> FALSE, refs |-> refs - 1]

\* The ownership step of PvProxy::destroy, after the handler's destroy ran
\* with outcome r (ok, raise, missing): release iff held.
PvDestroyOwnership(held, refs, r) ==
    [held |-> FALSE,
     refs |-> IF held THEN refs - 1 ELSE refs]

\* give_async_write_to_server on an AsyncWrite instance: sets the flag and
\* retains, whatever the flag was.
GiveAsyncWriteToServer(held, refs) ==
    [held |-> TRUE, refs |-> refs + 1, retv |-> TRUE]

\* Mutant: the token's teardown releases without looking at the flag.
AsyncDestroyOwnership_Always(held, refs) ==
    [held |-> FALSE, refs |-> refs - 1]

\* AsyncWriteProxy::destroy: release iff held.
AsyncDestroyOwnership(held, refs) ==
    [held |-> FALSE,
     refs |-> IF held THEN refs - 1 ELSE refs]

\* What a callback did to ownership, kept until it returns.
\* kind: the operation; held, before: the flag and the engine's references
\* before it; heldAfter, after: the same after it; changed: the reference
\* count changed; prev: the ownership operation before this one; run, base:
\* the run of hand-overs it met.
NoOwn == [kind |-> "none", changed |-> FALSE, prev |-> "none", run |-> 0,
          base |-> 0, held |-> FALSE, before |-> 0, heldAfter |-> FALSE,
          after |-> 0]

\* ------------------------------------------------- results (pure parts)
\* to_ait_enum: a recognised type symbol maps to its element type.
ToAitEnum(r) ==
    CASE r = "STRING" -> "aitEnumString"
      [] r = "LONG" -> "aitEnumInt32"
      [] OTHER -> "aitEnumInvalid"

\* PyObject_IsTrue on a call result: 1, 0 or -1 (the test itself failed).
IsTrue(r) ==
    CASE r = "true" -> 1
      [] r = "token" -> 1
      [] r = "false" -> 0
      [] OTHER -> 0 - 1

\* A call result that is NULL: the call raised, or never happened.
IsNull(r) == r \in {"raise", "missing", "convfail", "none"}

\* Mutant: a failed type query answers the invalid type.
BestExternalTypeResult_Invalid(r) ==
    IF ~IsNull(r) /\ ToAitEnum(r) # "aitEnumInvalid" THEN ToAitEnum(r)
    ELSE "aitEnumInvalid"

\* aitEnum ret = aitEnumString, replaced when type() returned a result
\* that to_ait_enum converts.
BestExternalTypeResult(r) ==
    IF ~IsNull(r) /\ ToAitEnum(r) # "aitEnumInvalid" THEN ToAitEnum(r)
    ELSE "aitEnumString"

\* An unsigned 32 bit value is kept as <<high half, low half>>, each half
\* 16 bits wide: the long n converted to unsigned is n modulo 2^32.
HalfWord == 65536
ToUnsigned(n) == <<(n \div HalfWord) % HalfWord, n % HalfWord>>

\* unsigned ret = count > 1, when the result is an int.
MaxDimensionResult(r, n) == IF r = "int" /\ n > 1 THEN ToUnsigned(1) ELSE ToUnsigned(0)

\* aitIndex bound = PyLong_AsLong(result), kept when no error occurred.
MaxBoundResult(r, n) == IF r = "int" THEN ToUnsigned(n) ELSE ToUnsigned(0)

\* Mutant: a None result counts as data.
ReadResult_NoneOk(r1, r2) ==
    IF ~IsNull(r1) /\ ToAitEnum(r1) # "aitEnumInvalid" /\ r2 \in {"attrs", "None"}
    THEN "S_casApp_success" ELSE "S_casApp_noSupport"

\* PvProxy::read: success iff the type is valid, read() returned a result
\* that is not None, and to_gdd converted it ("attrs").
ReadResult(r1, r2) ==
    IF ~IsNull(r1) /\ ToAitEnum(r1) # "aitEnumInvalid" /\ r2 = "attrs"
    THEN "S_casApp_success" ELSE "S_casApp_noSupport"

\* Mutant: the result is not checked for NULL before the truth test.
WriteResult_NoNullCheck(r) ==
    IF IsTrue(r) # 0 THEN "S_casApp_success" ELSE "S_casApp_noSupport"

\* PvProxy::write after from_gdd: success iff the result is there and
\* PyObject_IsTrue(result) is not 0.
WriteResult(r) ==
    IF ~IsNull(r) /\ IsTrue(r) # 0 THEN "S_casApp_success"
    ELSE "S_casApp_noSupport"

\* Mutant: every result that is there counts as success.
InterestRegisterResult_Always(r) ==
    IF ~IsNull(r) THEN "S_casApp_success" ELSE "S_casApp_noSupport"

\* PvProxy::interestRegister: success iff the result is there and
\* PyObject_IsTrue(result) is not 0.
InterestRegisterResult(r) ==
    IF ~IsNull(r) /\ IsTrue(r) # 0 THEN "S_casApp_success"
    ELSE "S_casApp_noSupport"

\* to_exist_return(result, ret): a member of the ExistsResponse
\* enumeration sets ret, anything else leaves it as it was (d).
ToExistReturn(r, d) ==
    CASE r = "EXISTS_HERE" -> "pverExistsHere"
      [] r = "NOT_EXISTS_HERE" -> "pverDoesNotExistHere"
      [] OTHER -> d

\* Mutant: the answer starts out as "exists here".
PvExistTestResult_DefaultExists(r) ==
    IF IsNull(r) THEN "pverExistsHere" ELSE ToExistReturn(r, "pverExistsHere")

\* pvExistReturn ret = pverDoesNotExistHere, converted only when the
\* handler call returned a result.
PvExistTestResult(r) ==
    IF IsNull(r) THEN "pverDoesNotExistHere"
    ELSE ToExistReturn(r, "pverDoesNotExistHere")

\* to_attach_return(result, ret): a PV instance is given to the server and
\* its proxy is the answer; a member of the AttachResponse enumeration sets
\* ret; anything else leaves it as it was (d).
ToAttachReturn(r, d) ==
    CASE r = "PV" -> "proxy"
      [] r = "NO_MEMORY" -> "S_casApp_noMemory"
      [] r = "NOT_FOUND" -> "S_casApp_pvNotFound"
      [] OTHER -> d

\* Mutant: the answer starts out as "no memory".
PvAttachResult_DefaultNoMemory(r) ==
    IF IsNull(r) THEN "S_casApp_noMemory" ELSE ToAttachReturn(r, "S_casApp_noMemory")

\* pvAttachReturn ret = S_casApp_pvNotFound, converted only when the
\* handler call returned a result.
PvAttachResult(r) ==
    IF IsNull(r) THEN "S_casApp_pvNotFound"
    ELSE ToAttachReturn(r, "S_casApp_pvNotFound")

\* The value a callback returns, from the outcomes of its handler calls.
RetOf(o, r1, r2) ==
    CASE o = "bestExternalType" -> BestExternalTypeResult(r1)
      [] o = "read" -> ReadResult(r1, r2)
      [] o = "write" -> WriteResult(r1)
      [] o = "interestRegister" -> InterestRegisterResult(r1)
      [] o = "pvExistTest" -> PvExistTestResult(r1)
      [] o = "pvAttach" -> PvAttachResult(r1)
      [] o \in {"maxDimension", "maxBound"} -> "number"
      [] OTHER -> "void"

NumOf(o, r1, n) ==
    CASE o = "maxDimension" -> MaxDimensionResult(r1, n)
      [] o = "maxBound" -> MaxBoundResult(r1, n)
      [] OTHER -> ToUnsigned(0)

\* ------------------------------------------- errors and default methods
\* Mutant: a pending error is neither reported nor cleared.
ClearPending_Keep(e) == [err |-> e, wrote |-> 0]

\* if (PyErr_Occurred()) { PyErr_WriteUnraisable(..); PyErr_Clear(); }
\* with e the error indicator before it: the indicator after it and the
\* number of reports written.
ClearPending(e) == [err |-> FALSE, wrote |-> IF e THEN 1 ELSE 0]

\* A conversion of a handler's result that fails leaves an error pending:
\* the truth test, PyLong_AsLong, and the conversions of enumerated values
\* and of value containers.
ConvertError(o, r1, r2) ==
    \/ o \in {"write", "interestRegister"} /\ r1 = "truthErr"
    \/ o = "maxBound" /\ r1 = "nonint"
    \/ o \in {"bestExternalType", "read", "pvExistTest", "pvAttach"} /\ r1 = "garbage"
    \/ o = "read" /\ r2 = "badattrs"

\* The error handling of a callback whose handler calls had outcomes r1,
\* r2: a report-and-clear block after each call, and one before the lock
\* is released, which also meets the errors of a failed method lookup, of
\* from_gdd and of the result conversions.  The token's destroy makes no
\* call into the host runtime.
CallbackErrors(o, r1, r2) ==
    IF o = "tokenDestroy" THEN [err |-> FALSE, sink |-> 0]
    ELSE
        LET a1 == ClearPending(r1 = "raise")
            a2 == ClearPending(r2 = "raise")
            left == \/ a1.err
                    \/ a2.err
                    \/ r1 \in {"missing", "convfail"}
                    \/ r2 = "missing"
                    \/ ConvertError(o, r1, r2)
            b == ClearPending(left)
        IN [err |-> b.err, sink |-> a1.wrote + a2.wrote + b.wrote]

\* Mutant: the inherited write() accepts the value.
DefaultHandler_WriteTrue(m) ==
    CASE m = "type" -> "STRING"
      [] m = "count" -> "int"
      [] m = "read" -> "None"
      [] m = "write" -> "true"
      [] m = "interestRegister" -> "false"
      [] m = "pvExistTest" -> "NOT_EXISTS_HERE"
      [] m = "pvAttach" -> "NOT_FOUND"
      [] OTHER -> "ok"

\* What the method a PV or server class inherits answers when the handler
\* does not override it.
DefaultHandler(m) ==
    CASE m = "destroy" -> "ok"
      [] m = "type" -> "STRING"
      [] m = "count" -> "int"
      [] m = "read" -> "None"
      [] m = "write" -> "false"
      [] m = "interestRegister" -> "false"
      [] m = "interestDelete" -> "ok"
      [] m = "pvExistTest" -> "NOT_EXISTS_HERE"
      [] m = "pvAttach" -> "NOT_FOUND"
      [] OTHER -> "none"

\* The inherited count() answers 1.
DefaultCount == 1

\* ------------------------------------------------------------------- Init
\* The state after pv_new + pv_init(name) and AsyncWrite(context): the host
\* holds the only reference to each object, nothing is held by the engine.
Init ==
    /\ gil = NoThread
    /\ crashed = FALSE
    /\ pc = [t \in Threads |-> "idle"]
    /\ op = [t \in Threads |-> "none"]
    /\ base = [t \in Threads |-> "idle"]
    /\ stage = [t \in Threads |-> 0]
    /\ hcalls = [t \in Threads |-> 0]
    /\ res1 = [t \in Threads |-> "none"]
    /\ res2 = [t \in Threads |-> "none"]
    /\ ival = [t \in Threads |-> 0]
    /\ ret = [t \in Threads |-> "none"]
    /\ rnum = [t \in Threads |-> ToUnsigned(0)]
    /\ gst = [t \in Threads |-> "none"]
    /\ acq = [t \in Threads |-> 0]
    /\ rel = [t \in Threads |-> 0]
    /\ own = [t \in Threads |-> NoOwn]
    /\ procRet = [t \in Threads |-> "none"]
    /\ pvName \in Names
    /\ pvCtorName = pvName
    /\ pvHeld = FALSE
    /\ pvHostRefs = 1
    /\ pvEngRefs = 0
    /\ pvAlive = TRUE
    /\ pvRun = 0
    /\ pvRunBase = 0
    /\ pvLastOp = "init"
    /\ gotName = "none"
    /\ tokHeld = FALSE
    /\ tokHostRefs = 1
    /\ tokEngRefs = 0
    /\ tokAlive = TRUE
    /\ tokPosted = FALSE
    /\ tokStatus = "none"
    /\ tokPosts = 0
    /\ tokEffects = 0
    /\ postRet = "none"
    /\ tokGives = 0
    /\ tokGiveBase = 0
    /\ tokLastOp = "init"
    /\ gotLocked = FALSE
    /\ err = [t \in Threads |-> FALSE]
    /\ sink = [t \in Threads |-> 0]
    /\ dflt = [t \in Threads |-> FALSE]
    /\ evPath = "none"
    /\ evMask = "none"
    /\ evRet = "none"
    /\ evAlloc = 0
    /\ evFreed = 0
    /\ gddLive = 0
    /\ evErr = FALSE
    /\ ctx = "none"
    /\ ctxThread = NoThread
    /\ initRet = "none"
    /\ initCtx = "none"
    /\ initNative = FALSE
    /\ procArg = [t \in Threads |-> "none"]
    /\ tokKeeps = "none"
    /\ postCtx = "none"
    /\ touchedFreed = FALSE
    /\ deallocHeld = FALSE

\* ------------------------------------------------------ native callbacks
\* A thread is inside a callback and may still touch the object.
InFlight(t) == pc[t] \in {"ensure", "handler", "yielded"}

\* What the engine may invoke: callbacks of a live object only; destroy
\* is the engine's last call on an object and overlaps no other call on it.
CanInvoke(o) ==
    /\ o \in PvOps => pvAlive
    /\ o = "destroy" => \A u \in Threads : ~(InFlight(u) /\ op[u] \in PvOps)
    /\ o \in PvOps \ {"destroy"} =>
          \A u \in Threads : ~(InFlight(u) /\ op[u] = "destroy")
    /\ o = "tokenDestroy" =>
          tokAlive /\ \A u \in Threads : ~(InFlight(u) /\ op[u] = "tokenDestroy")

\* PyGILState_Ensure: blocks until the lock is free, unless this thread
\* holds it already; answers whether it was held.
CanEnsure(t) == gil = NoThread \/ gil = t
EnsureState(t) == IF gil = t THEN "LOCKED" ELSE "UNLOCKED"

\* Mutant: the lock is not given back.
ReleaseTo_Keep(t, g) == t

\* PyGILState_Release(gstate): gives the lock back unless it was held
\* before the matching Ensure.
ReleaseTo(t, g) == IF g = "LOCKED" THEN t ELSE NoThread

\* The engine calls virtual method o of a proxy on thread t.
CbInvoke(t, o) ==
    /\ ~crashed
    /\ pc[t] \in {"idle", "servicing"}
    /\ CanInvoke(o)
    /\ pc' = [pc EXCEPT ![t] = "ensure"]
    /\ op' = [op EXCEPT ![t] = o]
    /\ base' = [base EXCEPT ![t] = pc[t]]
    /\ UNCHANGED <<gil, crashed, stage, hcalls, res1, res2, ival, ret, rnum, gst,
                   acq, rel, own, procRet, pvVars, tokVars, errVars, evVars, ctxVars, auxVars>>

\* Mutant: the teardown releases first and clears the flag afterwards.
TeardownSteps_ClearLate == <<"test", "release", "clear", "unlock">>

\* The ownership steps of both teardown callbacks, in the order of the
\* code: if (held_by_server) { held_by_server = false; Py_DECREF(..); }
\* PyGILState_Release(gstate).
TeardownSteps == <<"test", "clear", "release", "unlock">>

\* The steps that read or write a field of the object or of its proxy;
\* the unlock uses the local gstate only.
TouchesObject(step) == step \in {"test", "clear"}

\* The position of a step in the order.
StepIndex(steps, step) == CHOOSE i \in 1..Len(steps) : steps[i] = step

\* A step after the release touches the object.
TouchAfterRelease(steps) ==
    \E i \in 1..Len(steps) :
        i > StepIndex(steps, "release") /\ TouchesObject(steps[i])

\* The flag at the moment of the release, which runs only when the test
\* found the flag set.
FlagAtRelease(steps) == StepIndex(steps, "clear") > StepIndex(steps, "release")

\* The tail every callback shares once its handler calls are over (outcomes
\* r1, r2 and the integer n): the result is computed, pending errors are
\* written out and cleared, the destroy callbacks and pvAttach change
\* ownership, and the lock is released.  g is what Ensure answered, na the
\* Ensure calls made, nh the handler calls made, df whether the method
\* called was the inherited default.
Finish(t, g, na, r1, r2, n, nh, df) ==
    LET o == op[t]
        ce == CallbackErrors(op[t], r1, r2)
        d == PvDestroyOwnership(pvHeld, pvEngRefs, r1)
        gv == GiveToServer(pvHeld, pvEngRefs)
        td == AsyncDestroyOwnership(tokHeld, tokEngRefs)
        giving == o = "pvAttach" /\ r1 = "PV"
    IN
    /\ gil' = ReleaseTo(t, g)
    /\ pc' = [pc EXCEPT ![t] = "ret"]
    /\ stage' = [stage EXCEPT ![t] = 0]
    /\ hcalls' = [hcalls EXCEPT ![t] = nh]
    /\ res1' = [res1 EXCEPT ![t] = r1]
    /\ res2' = [res2 EXCEPT ![t] = r2]
    /\ ival' = [ival EXCEPT ![t] = n]
    /\ ret' = [ret EXCEPT ![t] = RetOf(o, r1, r2)]
    /\ rnum' = [rnum EXCEPT ![t] = NumOf(o, r1, n)]
    /\ gst' = [gst EXCEPT ![t] = g]
    /\ acq' = [acq EXCEPT ![t] = na]
    /\ rel' = [rel EXCEPT ![t] = rel[t] + 1]
    /\ own' = [own EXCEPT ![t] =
          CASE o = "destroy" ->
                 [kind |-> "destroy", changed |-> d.refs # pvEngRefs, prev |-> pvLastOp,
                  run |-> pvRun, base |-> pvRunBase, held |-> pvHeld,
                  before |-> pvEngRefs, heldAfter |-> d.held, after |-> d.refs]
            [] giving ->
                 [kind |-> "give", changed |-> gv.refs # pvEngRefs, prev |-> pvLastOp,
                  run |-> pvRun, base |-> pvRunBase, held |-> pvHeld,
                  before |-> pvEngRefs, heldAfter |-> gv.held, after |-> gv.refs]
            [] o = "tokenDestroy" ->
                 [kind |-> "tokenDestroy", changed |-> td.refs # tokEngRefs,
                  prev |-> tokLastOp, run |-> tokGives, base |-> tokGiveBase,
                  held |-> tokHeld, before |-> tokEngRefs, heldAfter |-> td.held,
                  after |-> td.refs]
            [] OTHER -> NoOwn]
    /\ pvHeld' = (CASE o = "destroy" -> d.held [] giving -> gv.held [] OTHER -> pvHeld)
    /\ pvEngRefs' = (CASE o = "destroy" -> d.refs [] giving -> gv.refs [] OTHER -> pvEngRefs)
    /\ pvAlive' = (IF o = "destroy" THEN pvHostRefs + d.refs > 0 ELSE pvAlive)
    /\ pvRun' = (CASE o = "destroy" -> 0
                   [] giving -> (IF pvRun < MaxRun THEN pvRun + 1 ELSE pvRun)
                   [] OTHER -> pvRun)
    /\ pvRunBase' = (IF giving /\ pvRun = 0 THEN pvEngRefs ELSE pvRunBase)
    /\ pvLastOp' = (CASE o = "destroy" -> "destroy" [] giving -> "give" [] OTHER -> pvLastOp)
    /\ tokHeld' = (IF o = "tokenDestroy" THEN td.held ELSE tokHeld)
    /\ tokEngRefs' = (IF o = "tokenDestroy" THEN td.refs ELSE tokEngRefs)
    /\ tokAlive' = (IF o = "tokenDestroy" THEN tokHostRefs + td.refs > 0 ELSE tokAlive)
    /\ tokGives' = (IF o = "tokenDestroy" THEN 0 ELSE tokGives)
    /\ tokLastOp' = (IF o = "tokenDestroy" THEN "destroy" ELSE tokLastOp)
    /\ err' = [err EXCEPT ![t] = ce.err]
    /\ sink' = [sink EXCEPT ![t] = ce.sink]
    /\ dflt' = [dflt EXCEPT ![t] = df]
    /\ LET freed == \/ (o = "destroy" /\ pvAlive /\ pvHostRefs + d.refs = 0)
                     \/ (o = "tokenDestroy" /\ tokAlive /\ tokHostRefs + td.refs = 0)
       IN /\ touchedFreed' = (touchedFreed \/ (freed /\ TouchAfterRelease(TeardownSteps)))
          /\ deallocHeld' = (deallocHeld \/ (freed /\ FlagAtRelease(TeardownSteps)))
    /\ UNCHANGED <<crashed, op, base, procRet, pvName, pvCtorName, pvHostRefs, gotName,
                   gotLocked, tokHostRefs, tokPosted, tokStatus, tokPosts, tokEffects,
                   postRet, tokGiveBase, evVars, ctxVars, procArg, tokKeeps, postCtx>>

\* Ways a callback ends without calling any handler method: the token's
\* destroy calls none; the method lookup fails; write's from_gdd fails.
ShortCuts(o) ==
    CASE o = "tokenDestroy" -> {"nohandler"}
      [] o = "write" -> {"convfail", "missing"}
      [] OTHER -> {"missing"}

\* Ensure, lookup of the method, and the start of the handler call.
CbEnterCall(t) ==
    /\ ~crashed
    /\ pc[t] = "ensure"
    /\ CanEnsure(t)
    /\ op[t] # "tokenDestroy"
    /\ gil' = t
    /\ gst' = [gst EXCEPT ![t] = EnsureState(t)]
    /\ acq' = [acq EXCEPT ![t] = acq[t] + 1]
    /\ pc' = [pc EXCEPT ![t] = "handler"]
    /\ stage' = [stage EXCEPT ![t] = 1]
    /\ hcalls' = [hcalls EXCEPT ![t] = 1]
    /\ UNCHANGED <<crashed, op, base, res1, res2, ival, ret, rnum, rel, own, procRet,
                   pvVars, tokVars, errVars, evVars, ctxVars, auxVars>>

\* Ensure, then straight to the tail.
CbEnterShort(t, why) ==
    /\ ~crashed
    /\ pc[t] = "ensure"
    /\ CanEnsure(t)
    /\ why \in ShortCuts(op[t])
    /\ Finish(t, EnsureState(t), acq[t] + 1, why, "none", 0, 0, FALSE)

\* The handler's code lets another host thread run.
HandlerYield(t) ==
    /\ ~crashed
    /\ pc[t] = "handler"
    /\ gil = t
    /\ gil' = NoThread
    /\ pc' = [pc EXCEPT ![t] = "yielded"]
    /\ UNCHANGED <<crashed, op, base, stage, hcalls, res1, res2, ival, ret, rnum, gst,
                   acq, rel, own, procRet, pvVars, tokVars, errVars, evVars, ctxVars, auxVars>>

HandlerResume(t) ==
    /\ ~crashed
    /\ pc[t] = "yielded"
    /\ gil = NoThread
    /\ gil' = t
    /\ pc' = [pc EXCEPT ![t] = "handler"]
    /\ UNCHANGED <<crashed, op, base, stage, hcalls, res1, res2, ival, ret, rnum, gst,
                   acq, rel, own, procRet, pvVars, tokVars, errVars, evVars, ctxVars, auxVars>>

\* The handler may answer with the PV object only while host code still
\* has it; the cap keeps the leaked references of the model finite.
CanAnswer(o, r) ==
    (o = "pvAttach" /\ r = "PV") =>
        (pvAlive /\ pvHostRefs > 0 /\ (pvHeld \/ pvEngRefs < MaxRefs))

\* Mutant: read goes on whatever type() gave.
ReadGoesOn_Always(o, r) == o = "read"

\* read goes on to its second handler call when the type is valid.
ReadGoesOn(o, r) == o = "read" /\ ~IsNull(r) /\ ToAitEnum(r) # "aitEnumInvalid"

\* The (last) handler call of a one-call callback returns with outcome r.
HandlerReturn(t, r, n) ==
    /\ ~crashed
    /\ pc[t] = "handler"
    /\ stage[t] = 1
    /\ r \in Outcomes(Method(op[t]))
    /\ n \in (IF r = "int" THEN Counts ELSE {0})
    /\ CanAnswer(op[t], r)
    /\ ~ReadGoesOn(op[t], r)
    /\ Finish(t, gst[t], acq[t], r, "none", n, hcalls[t], FALSE)

\* The methods found are the inherited defaults, which return at once;
\* read goes on from the default type() to the default read().
DefaultReturn(t) ==
    /\ ~crashed
    /\ pc[t] = "handler"
    /\ stage[t] = 1
    /\ LET r == DefaultHandler(Method(op[t]))
           second == ReadGoesOn(op[t], r)
       IN
         Finish(t, gst[t], acq[t], r,
                IF second THEN DefaultHandler("read") ELSE "none",
                IF r = "int" THEN DefaultCount ELSE 0,
                IF second THEN 2 ELSE hcalls[t], TRUE)

\* maxDimension applies PyLong_Check to the NULL result of a call that
\* raised: the read through the null pointer may fault (the other outcome,
\* a garbage type word that is not an int, is HandlerReturn with "raise").
CbFault(t) ==
    /\ ~crashed
    /\ pc[t] = "handler"
    /\ op[t] = "maxDimension"
    /\ crashed' = TRUE
    /\ pc' = [pc EXCEPT ![t] = "fault"]
    /\ res1' = [res1 EXCEPT ![t] = "raise"]
    /\ UNCHANGED <<gil, op, base, stage, hcalls, res2, ival, ret, rnum, gst, acq, rel,
                   own, procRet, pvVars, tokVars, errVars, evVars, ctxVars, auxVars>>

\* read: type() gave a valid type r, the read method is found and called.
ReadSecondCall(t, r) ==
    /\ ~crashed
    /\ pc[t] = "handler"
    /\ stage[t] = 1
    /\ r \in Outcomes("type")
    /\ ReadGoesOn(op[t], r)
    /\ res1' = [res1 EXCEPT ![t] = r]
    /\ stage' = [stage EXCEPT ![t] = 2]
    /\ hcalls' = [hcalls EXCEPT ![t] = 2]
    /\ UNCHANGED <<gil, crashed, pc, op, base, res2, ival, ret, rnum, gst, acq, rel,
                   own, procRet, pvVars, tokVars, errVars, evVars, ctxVars, auxVars>>

\* read: type() gave a valid type r, the read method is missing.
ReadSecondMissing(t, r) ==
    /\ ~crashed
    /\ pc[t] = "handler"
    /\ stage[t] = 1
    /\ r \in Outcomes("type")
    /\ ReadGoesOn(op[t], r)
    /\ Finish(t, gst[t], acq[t], r, "missing", 0, hcalls[t], FALSE)

\* read: the handler's read returns with outcome r2.
ReadReturn(t, r2) ==
    /\ ~crashed
    /\ pc[t] = "handler"
    /\ stage[t] = 2
    /\ r2 \in Outcomes("read")
    /\ Finish(t, gst[t], acq[t], res1[t], r2, 0, hcalls[t], FALSE)

\* The callback returns to the engine.
CbReturn(t) ==
    /\ ~crashed
    /\ pc[t] = "ret"
    /\ pc' = [pc EXCEPT ![t] = base[t]]
    /\ op' = [op EXCEPT ![t] = "none"]
    /\ base' = [base EXCEPT ![t] = "idle"]
    /\ hcalls' = [hcalls EXCEPT ![t] = 0]
    /\ res1' = [res1 EXCEPT ![t] = "none"]
    /\ res2' = [res2 EXCEPT ![t] = "none"]
    /\ ival' = [ival EXCEPT ![t] = 0]
    /\ ret' = [ret EXCEPT ![t] = "none"]
    /\ rnum' = [rnum EXCEPT ![t] = ToUnsigned(0)]
    /\ gst' = [gst EXCEPT ![t] = "none"]
    /\ acq' = [acq EXCEPT ![t] = 0]
    /\ rel' = [rel EXCEPT ![t] = 0]
    /\ own' = [own EXCEPT ![t] = NoOwn]
    /\ err' = [err EXCEPT ![t] = FALSE]
    /\ sink' = [sink EXCEPT ![t] = 0]
    /\ dflt' = [dflt EXCEPT ![t] = FALSE]
    /\ ctx' = (IF ctx = "live" /\ ctxThread = t /\ op[t] = "write" THEN "stale" ELSE ctx)
    /\ UNCHANGED <<gil, crashed, stage, procRet, pvVars, tokVars, evVars, ctxThread,
                   initRet, initCtx, initNative, auxVars>>

\* Mutant: getName() takes the lock first.
GetNameBlocked_Ensure(t) == ~CanEnsure(t)

\* What getName() waits for: nothing, it makes no call that can block.
GetNameBlocked(t) == FALSE

\* getName(): no lock, no handler; reads the stored name.
GetName(t) ==
    /\ ~crashed
    /\ pc[t] \in {"idle", "servicing"}
    /\ pvAlive
    /\ ~GetNameBlocked(t)
    /\ gotName' = pvName
    /\ gotLocked' = (gil # NoThread)
    /\ UNCHANGED <<gil, crashed, thrVars, pvName, pvCtorName, pvHeld, pvHostRefs,
                   pvEngRefs, pvAlive, pvRun, pvRunBase, pvLastOp, tokVars, errVars,
                   evVars, ctxVars, auxVars>>

\* ------------------------------------------------------------ host calls
\* A host call that never lets go of the lock runs as one step, taken
\* when the lock is free.

\* pv_init, called again on the constructed object (pv.__init__(arg)):
\* an argument that is not bytes fails the parse and changes nothing.
PvInit(arg) ==
    /\ ~crashed
    /\ gil = NoThread
    /\ pvAlive /\ pvHostRefs > 0
    /\ IF arg = "notbytes"
       THEN UNCHANGED <<pvName, pvHeld, pvRun, pvLastOp>>
       ELSE /\ pvName' = arg
            /\ pvHeld' = FALSE
            /\ pvRun' = 0
            /\ pvLastOp' = "init"
    /\ UNCHANGED <<gil, crashed, thrVars, pvCtorName, pvHostRefs, pvEngRefs, pvAlive,
                   pvRunBase, gotName, gotLocked, tokVars, errVars, evVars,
                   ctxVars, auxVars>>

\* Host code drops its reference to the PV (a call on the object keeps
\* the caller's reference until it is over).
HostDropPv ==
    /\ ~crashed
    /\ gil = NoThread
    /\ pvAlive /\ pvHostRefs > 0
    /\ \A u \in Threads : ~(InFlight(u) /\ op[u] \in PvOps)
    /\ pvHostRefs' = pvHostRefs - 1
    /\ pvAlive' = (pvHostRefs - 1 + pvEngRefs > 0)
    /\ deallocHeld' = (deallocHeld \/ (pvHostRefs - 1 + pvEngRefs = 0 /\ pvHeld))
    /\ UNCHANGED <<gil, crashed, thrVars, pvName, pvCtorName, pvHeld, pvEngRefs,
                   pvRun, pvRunBase, pvLastOp, gotName, gotLocked, tokVars, errVars,
                   evVars, ctxVars, procArg, tokKeeps, postCtx, touchedFreed>>

\* The bridge hands the token to the engine (under the lock).
GiveAsyncWrite ==
    /\ ~crashed
    /\ gil = NoThread
    /\ tokAlive /\ tokHostRefs > 0
    /\ tokEngRefs < MaxRefs
    /\ LET g == GiveAsyncWriteToServer(tokHeld, tokEngRefs) IN
         /\ tokHeld' = g.held
         /\ tokEngRefs' = g.refs
    /\ tokGives' = (IF tokGives < MaxRun THEN tokGives + 1 ELSE tokGives)
    /\ tokGiveBase' = (IF tokGives = 0 THEN tokEngRefs ELSE tokGiveBase)
    /\ tokLastOp' = "give"
    /\ UNCHANGED <<gil, crashed, thrVars, pvVars, tokHostRefs, tokAlive, tokPosted,
                   tokStatus, tokPosts, tokEffects, postRet, errVars, evVars, ctxVars, auxVars>>

\* The engine's postIOCompletion: the first post is taken, later ones are
\* answered S_cas_redundantPost and change nothing.
PostIOCompletion(posted, st, status) ==
    IF posted
    THEN [status |-> "S_cas_redundantPost", posted |-> TRUE, st |-> st]
    ELSE [status |-> "S_cas_success", posted |-> TRUE, st |-> status]

\* Mutant: a redundant post is reported as an error.
PostResult_Strict(engineStatus) ==
    IF engineStatus = "S_cas_success" THEN "None" ELSE "RuntimeError"

\* AsyncWriteProxy::post maps the engine's answer to the host result.
PostResult(engineStatus) ==
    IF engineStatus \in {"S_cas_success", "S_cas_redundantPost"}
    THEN "None" ELSE "RuntimeError"

\* complete() posts S_casApp_success, fail() S_casApp_canceledAsyncIO.
PostStatus(m) ==
    IF m = "complete" THEN "S_casApp_success" ELSE "S_casApp_canceledAsyncIO"

\* post() reads the proxy of the token and nothing of the capsule; were a
\* capsule kept and read, the read would go through the pointer of a call
\* that may have returned.
PostFaults(kept, c) == kept = "capsule" /\ c = "stale"

\* The change post(PostStatus(m)) makes to the token's completion state and
\* to the counters of posts.
PostEffect(m) ==
    LET e == PostIOCompletion(tokPosted, tokStatus, PostStatus(m)) IN
        /\ tokPosted' = e.posted
        /\ tokStatus' = e.st
        /\ postRet' = (IF PostFaults(tokKeeps, ctx) THEN "fault" ELSE PostResult(e.status))
        /\ crashed' = PostFaults(tokKeeps, ctx)
        /\ tokEffects' = (IF <<e.posted, e.st>> # <<tokPosted, tokStatus>>
                            /\ tokEffects < MaxPosts
                          THEN tokEffects + 1 ELSE tokEffects)
        /\ tokPosts' = (IF tokPosts < MaxPosts THEN tokPosts + 1 ELSE tokPosts)
        /\ postCtx' = ctx

\* Host code calls complete() or fail() on the token.
Post(m) ==
    /\ ~crashed
    /\ gil = NoThread
    /\ tokAlive /\ tokHostRefs > 0
    /\ PostEffect(m)
    /\ UNCHANGED <<gil, thrVars, pvVars, tokHeld, tokHostRefs, tokEngRefs,
                   tokAlive, tokGives, tokGiveBase, tokLastOp, errVars, evVars, ctxVars,
                   procArg, tokKeeps, touchedFreed, deallocHeld>>

\* Mutant: the lock is let go while the completion is posted.
PostLock_Released(t) == NoThread

\* The holder of the lock while complete() or fail() runs on thread t: the
\* caller; post() has no Py_BEGIN_ALLOW_THREADS.
PostLock(t) == t

\* Host thread t is about to call complete() or fail() on the token; to
\* run host code it needs the lock.
PostCall(t, m) ==
    /\ ~crashed
    /\ pc[t] = "idle"
    /\ tokAlive /\ tokHostRefs > 0
    /\ m \in {"complete", "fail"}
    /\ pc' = [pc EXCEPT ![t] = "postwait"]
    /\ op' = [op EXCEPT ![t] = m]
    /\ UNCHANGED <<gil, crashed, base, stage, hcalls, res1, res2, ival, ret, rnum, gst,
                   acq, rel, own, procRet, pvVars, tokVars, errVars, evVars, ctxVars,
                   auxVars>>

\* The thread has the lock and the method runs.
PostEnter(t) ==
    /\ ~crashed
    /\ pc[t] = "postwait"
    /\ gil = NoThread
    /\ gil' = PostLock(t)
    /\ pc' = [pc EXCEPT ![t] = "posting"]
    /\ UNCHANGED <<crashed, op, base, stage, hcalls, res1, res2, ival, ret, rnum, gst,
                   acq, rel, own, procRet, pvVars, tokVars, errVars, evVars, ctxVars,
                   auxVars>>

\* postIOCompletion is called and its answer mapped; the method returns
\* and the thread lets the lock go.
PostDone(t) ==
    /\ ~crashed
    /\ pc[t] = "posting"
    /\ PostEffect(op[t])
    /\ ret' = [ret EXCEPT ![t] = postRet']
    /\ pc' = [pc EXCEPT ![t] = "posted"]
    /\ gil' = (IF gil = t THEN NoThread ELSE gil)
    /\ UNCHANGED <<op, base, stage, hcalls, res1, res2, ival, rnum, gst, acq, rel, own,
                   procRet, pvVars, tokHeld, tokHostRefs, tokEngRefs, tokAlive, tokGives,
                   tokGiveBase, tokLastOp, errVars, evVars, ctxVars, procArg, tokKeeps,
                   touchedFreed, deallocHeld>>

\* The caller goes on after complete() or fail().
PostReturn(t) ==
    /\ ~crashed
    /\ pc[t] = "posted"
    /\ pc' = [pc EXCEPT ![t] = "idle"]
    /\ op' = [op EXCEPT ![t] = "none"]
    /\ ret' = [ret EXCEPT ![t] = "none"]
    /\ UNCHANGED <<gil, crashed, base, stage, hcalls, res1, res2, ival, rnum, gst, acq,
                   rel, own, procRet, pvVars, tokVars, errVars, evVars, ctxVars, auxVars>>

\* Host code drops its reference to the token.
HostDropToken ==
    /\ ~crashed
    /\ gil = NoThread
    /\ tokAlive /\ tokHostRefs > 0
    /\ \A u \in Threads : ~(InFlight(u) /\ op[u] = "tokenDestroy")
    /\ tokHostRefs' = tokHostRefs - 1
    /\ tokAlive' = (tokHostRefs - 1 + tokEngRefs > 0)
    /\ deallocHeld' = (deallocHeld \/ (tokHostRefs - 1 + tokEngRefs = 0 /\ tokHeld))
    /\ UNCHANGED <<gil, crashed, thrVars, pvVars, tokHeld, tokEngRefs, tokPosted,
                   tokStatus, tokPosts, tokEffects, postRet, tokGives, tokGiveBase,
                   tokLastOp, errVars, evVars, ctxVars, procArg, tokKeeps, postCtx,
                   touchedFreed>>

\* ------------------------------------------------------------- postEvent
\* The event mask arguments of the model: a sequence of known event names,
\* an empty sequence, something that is no sequence of event names.
EventMasks == {"value", "empty", "garbage"}

\* to_event_mask: fails for an empty or unparseable mask.
ToEventMask(m) == m = "value"

\* Where PV.postEvent(events, values) ends, from the outcomes of its steps
\* in their order: the argument parse, the lookup and call of type(), the
\* type conversion, getCAS(), the mask conversion, the value conversion
\* into the new container, the engine's postEvent.
PostEventPath(parsed, ty, attached, mask, conv, throws) ==
    IF ~parsed THEN "args"
    ELSE IF ty = "missing" THEN "notype"
    ELSE IF ty = "raise" THEN "typeraise"
    ELSE IF ToAitEnum(ty) = "aitEnumInvalid" THEN "badtype"
    ELSE IF ~attached THEN "noserver"
    ELSE IF ~ToEventMask(mask) THEN "badmask"
    ELSE IF ~conv THEN "convfail"
    ELSE IF throws THEN "throw"
    ELSE "ok"

\* new gdd{gddAppType_value} is reached on the paths past the mask.
PostEventAllocated(path) == IF path \in {"convfail", "throw", "ok"} THEN 1 ELSE 0

\* Mutant: the exception path forgets the container.
PostEventReleased_NoThrow(path) == IF path \in {"convfail", "ok"} THEN 1 ELSE 0

\* values->unreference() is called on each of the three paths.
PostEventReleased(path) == IF path \in {"convfail", "throw", "ok"} THEN 1 ELSE 0

\* None on success, RuntimeError when the engine threw, otherwise the NULL
\* of a failed call.
PostEventReturn(path) ==
    CASE path = "ok" -> "None"
      [] path = "throw" -> "RuntimeError"
      [] OTHER -> "NULL"

\* The error indicator when postEvent returns.  PyArg_ParseTuple, the
\* attribute lookup, the call of type() and the conversions set it when
\* they fail, the exception path sets RuntimeError; the exits taken when
\* the converted type is the invalid type and when getCAS() answers no
\* server return the failure result and set nothing.
PostEventErrorSet(path, ty) ==
    CASE path \in {"args", "notype", "typeraise", "badmask", "convfail", "throw"} -> TRUE
      [] path = "badtype" -> ty # "INVALID"
      [] OTHER -> FALSE

\* Host code calls pv.postEvent(events, values); the lock is held from the
\* beginning to the end of the call.
PostEvent(parsed, ty, attached, mask, conv, throws) ==
    /\ ~crashed
    /\ gil = NoThread
    /\ pvAlive /\ pvHostRefs > 0
    /\ gddLive < MaxRefs
    /\ LET path == PostEventPath(parsed, ty, attached, mask, conv, throws) IN
         /\ evPath' = path
         /\ evMask' = (IF parsed THEN mask ELSE "none")
         /\ evRet' = PostEventReturn(path)
         /\ evAlloc' = PostEventAllocated(path)
         /\ evFreed' = PostEventReleased(path)
         /\ gddLive' = gddLive + PostEventAllocated(path) - PostEventReleased(path)
         /\ evErr' = PostEventErrorSet(path, ty)
    /\ UNCHANGED <<gil, crashed, thrVars, pvVars, tokVars, errVars, ctxVars, auxVars>>

\* ------------------------------------------------------ context capsules
\* create_async_context(ctx): a capsule that points at the context of the
\* write call running on thread t.  The model follows one capsule.
CreateAsyncContext(t) ==
    /\ ~crashed
    /\ pc[t] = "handler"
    /\ op[t] = "write"
    /\ gil = t
    /\ ctx # "live"
    /\ ctx' = "live"
    /\ ctxThread' = t
    /\ UNCHANGED <<gil, crashed, thrVars, pvVars, tokVars, errVars, evVars, initRet,
                   initCtx, initNative, auxVars>>

\* async_write_init(self, args) with the capsule in state c: the argument
\* parse and the instance test reject; a capsule is used without any test
\* of the call it came from, and reading through the pointer of a call
\* that has returned either goes unnoticed (ub = "works") or faults.
AsyncWriteInitResult(arg, c, ub) ==
    CASE arg = "noargs" -> [ret |-> "ArgError", native |-> FALSE, crash |-> FALSE]
      [] arg = "notcontext" -> [ret |-> "TypeError", native |-> FALSE, crash |-> FALSE]
      [] arg = "context" /\ c = "stale" /\ ub = "fault" ->
             [ret |-> "fault", native |-> FALSE, crash |-> TRUE]
      [] OTHER -> [ret |-> "ok", native |-> TRUE, crash |-> FALSE]

\* Mutant: the token stores the capsule it was constructed from.
AsyncWriteKeeps_Capsule(arg) == "capsule"

\* What async_write_init stores of its argument in the token: nothing;
\* the native completion object is constructed from the context and the
\* token keeps that object and a pointer to itself.
AsyncWriteKeeps(arg) == "none"

\* The engine-retained flag when proxy.reset(new AsyncWriteProxy(..))
\* deallocates the proxy the token had: the line before has cleared it.
FlagAtProxyReset(held) == FALSE

\* Host code constructs the token: AsyncWrite(arg), from a handler that is
\* running or from any other host thread.
AsyncWriteInit(arg, ub) ==
    /\ ~crashed
    /\ IF gil = NoThread THEN TRUE ELSE pc[gil] = "handler"
    /\ tokAlive /\ tokHostRefs > 0
    /\ arg = "context" => ctx # "none"
    /\ ub = "fault" => (arg = "context" /\ ctx = "stale")
    /\ LET r == AsyncWriteInitResult(arg, ctx, ub) IN
         /\ initRet' = r.ret
         /\ initCtx' = (IF arg = "context" THEN ctx ELSE "none")
         /\ initNative' = r.native
         /\ crashed' = r.crash
         /\ tokHeld' = (IF r.ret = "ok" \/ r.crash THEN FALSE ELSE tokHeld)
         /\ tokPosted' = (IF r.native THEN FALSE ELSE tokPosted)
         /\ tokStatus' = (IF r.native THEN "none" ELSE tokStatus)
         /\ tokGives' = (IF r.ret = "ok" \/ r.crash THEN 0 ELSE tokGives)
         /\ tokLastOp' = (IF r.ret = "ok" \/ r.crash THEN "init" ELSE tokLastOp)
         /\ tokKeeps' = (IF r.native THEN AsyncWriteKeeps(arg) ELSE tokKeeps)
         /\ deallocHeld' = (deallocHeld \/ (r.native /\ FlagAtProxyReset(tokHeld)))
    /\ UNCHANGED <<gil, thrVars, pvVars, tokHostRefs, tokEngRefs, tokAlive, tokPosts,
                   tokEffects, postRet, tokGiveBase, errVars, evVars, ctx, ctxThread,
                   procArg, postCtx, touchedFreed>>

\* --------------------------------------------------------------- process
\* Mutant: process() keeps the lock while the engine's I/O is serviced.
AllowThreads_Keep(t) == t

\* The lock holder while fileDescriptorManager.process runs: nobody,
\* Py_BEGIN_ALLOW_THREADS has released the lock.
AllowThreads(t) == NoThread

\* Mutant: the engine is driven whatever the argument.
ProcessDrives_Always(convertible) == TRUE

\* if (PyErr_Occurred()) return nullptr: the engine is driven only when
\* PyFloat_AsDouble converted the argument.
ProcessDrives(convertible) == convertible

\* process(arg), called by host thread t (which holds the lock while it
\* runs host code): PyFloat_AsDouble fails and the call returns the error,
\* or the lock is released and the engine's I/O is serviced.
ProcessCall(t, convertible) ==
    /\ ~crashed
    /\ pc[t] = "idle"
    /\ gil = NoThread
    /\ procArg' = [procArg EXCEPT ![t] = IF convertible THEN "number" ELSE "notnumber"]
    /\ IF ProcessDrives(convertible)
       THEN /\ gil' = AllowThreads(t)
            /\ pc' = [pc EXCEPT ![t] = "servicing"]
            /\ procRet' = [procRet EXCEPT ![t] = "none"]
       ELSE /\ procRet' = [procRet EXCEPT ![t] = "error"]
            /\ UNCHANGED <<gil, pc>>
    /\ UNCHANGED <<crashed, op, base, stage, hcalls, res1, res2, ival, ret, rnum, gst,
                   acq, rel, own, pvVars, tokVars, errVars, evVars, ctxVars, tokKeeps,
                   postCtx, touchedFreed, deallocHeld>>

\* fileDescriptorManager.process(timeout) returns.
ProcessEnd(t) ==
    /\ ~crashed
    /\ pc[t] = "servicing"
    /\ pc' = [pc EXCEPT ![t] = "reacquire"]
    /\ UNCHANGED <<gil, crashed, op, base, stage, hcalls, res1, res2, ival, ret, rnum,
                   gst, acq, rel, own, procRet, pvVars, tokVars, errVars, evVars, ctxVars, auxVars>>

\* Py_END_ALLOW_THREADS takes the lock again and process returns None; the
\* host thread then goes on with host code.
ProcessReturn(t) ==
    /\ ~crashed
    /\ pc[t] = "reacquire"
    /\ CanEnsure(t)
    /\ gil' = NoThread
    /\ pc' = [pc EXCEPT ![t] = "idle"]
    /\ procRet' = [procRet EXCEPT ![t] = "None"]
    /\ UNCHANGED <<crashed, op, base, stage, hcalls, res1, res2, ival, ret, rnum, gst,
                   acq, rel, own, pvVars, tokVars, errVars, evVars, ctxVars, auxVars>>

\* ----------------------------------------------------------------- specs
\* The steps of the callbacks in O.
CbCore(O) ==
    \E t \in Threads :
        \/ \E o \in O : CbInvoke(t, o)
        \/ CbEnterCall(t)
        \/ \E why \in {"nohandler", "convfail", "missing"} : CbEnterShort(t, why)
        \/ HandlerYield(t)
        \/ HandlerResume(t)
        \/ \E r \in UNION {Outcomes(Method(o)) : o \in O}, n \in Counts :
              HandlerReturn(t, r, n)
        \/ DefaultReturn(t)
        \/ CbReturn(t)

CbRead ==
    \E t \in Threads :
        \/ \E r \in Outcomes("type") : ReadSecondCall(t, r)
        \/ \E r \in Outcomes("type") : ReadSecondMissing(t, r)
        \/ \E r2 \in Outcomes("read") : ReadReturn(t, r2)

Process ==
    \E t \in Threads :
        \/ \E c \in BOOLEAN : ProcessCall(t, c)
        \/ ProcessEnd(t)
        \/ ProcessReturn(t)

\* The life of the PV object: attach (give_to_server), destroy, pv_init,
\* the host letting go, getName.
NextPv ==
    \/ CbCore({"destroy", "pvAttach"})
    \/ \E arg \in Names \cup {"notbytes"} : PvInit(arg)
    \/ HostDropPv
    \/ \E t \in Threads : GetName(t)

\* The life of the token: write, hand-over, complete/fail, teardown.
NextToken ==
    \/ CbCore({"write", "tokenDestroy"})
    \/ GiveAsyncWrite
    \/ \E m \in {"complete", "fail"} : Post(m)
    \/ HostDropToken

\* Every native callback, on engine threads.
NextCallbacks ==
    \/ CbCore(CallbackOps)
    \/ CbRead
    \/ \E t \in Threads : CbFault(t)

\* process() on host threads, with callbacks raised while it services I/O
\* (on the servicing thread) and on engine threads.
NextProcess ==
    \/ Process
    \/ CbCore({"write", "interestDelete"})

\* Events: the engine asks for and drops interest, host code posts.
NextEvents ==
    \/ CbCore({"interestRegister", "interestDelete"})
    \/ \E parsed, attached, conv, throws \in BOOLEAN :
          \E ty \in Outcomes("type") \cup {"missing", "INVALID"}, mask \in EventMasks :
             PostEvent(parsed, ty, attached, mask, conv, throws)

\* Asynchronous writes: write callbacks, the capsule of a write call, the
\* construction of a token from it.
NextAsync ==
    \/ CbCore({"write"})
    \/ \E t \in Threads : CreateAsyncContext(t)
    \/ \E arg \in {"noargs", "notcontext", "context"}, ub \in {"works", "fault"} :
          AsyncWriteInit(arg, ub)
    \/ \E m \in {"complete", "fail"} : Post(m)

\* Ownership of the PV between the engine's threads: attach and destroy,
\* with no re-initialisation.
NextOwn ==
    \/ CbCore({"destroy", "pvAttach"})
    \/ HostDropPv

\* Host threads posting completions, with write callbacks and the token's
\* hand-over and teardown.
NextPost ==
    \/ \E t \in Threads :
          \/ \E m \in {"complete", "fail"} : PostCall(t, m)
          \/ PostEnter(t)
          \/ PostDone(t)
          \/ PostReturn(t)
    \/ CbCore({"write", "tokenDestroy"})
    \/ GiveAsyncWrite

Next ==
    \/ NextPv
    \/ NextToken
    \/ NextCallbacks
    \/ NextProcess
    \/ NextEvents
    \/ NextAsync
    \/ NextOwn
    \/ NextPost

SpecPv == Init /\ [][NextPv]_vars
SpecToken == Init /\ [][NextToken]_vars
SpecCallbacks == Init /\ [][NextCallbacks]_vars
SpecProcess == Init /\ [][NextProcess]_vars
SpecEvents == Init /\ [][NextEvents]_vars
SpecAsync == Init /\ [][NextAsync]_vars
SpecOwn == Init /\ [][NextOwn]_vars
SpecPost == Init /\ [][NextPost]_vars

\* process() with the scheduling it relies on: the engine's servicing ends
\* (the timeout), a thread that waits for the lock gets it, a handler that
\* runs returns, a callback that has finished returns to the engine.
ProcessFairness ==
    \A t \in Threads :
        /\ SF_vars(ProcessEnd(t))
        /\ SF_vars(ProcessReturn(t))
        /\ SF_vars(CbEnterCall(t) \/ CbEnterShort(t, "missing"))
        /\ SF_vars(HandlerResume(t))
        /\ SF_vars(DefaultReturn(t)
                    \/ \E r \in Outcomes("interestDelete") : HandlerReturn(t, r, 0))
        /\ WF_vars(CbReturn(t))

\* process() on host threads with the interestDelete callbacks its
\* servicing raises.
NextDrive ==
    \/ Process
    \/ CbCore({"interestDelete"})

SpecProcessFair == Init /\ [][NextDrive]_vars /\ ProcessFairness
Spec == Init /\ [][Next]_vars

\* ================================================================ claims

\* C1: give_to_server is idempotent.  Over a run of n >= 1 give_to_server
\* calls with no destroy (or pv_init) in between, the engine's references
\* rise by exactly one: the first call of the run retains, the later ones
\* do not, every call answers the proxy; the destroy that ends the run
\* releases exactly that one reference.
C1_GiveIdempotent ==
    /\ pvRun >= 1 => (pvHeld /\ pvEngRefs = pvRunBase + 1)
    /\ \A t \in Threads :
          (pc[t] = "ret" /\ own[t].kind = "give") =>
              /\ ret[t] = "proxy"
              /\ own[t].heldAfter
              /\ own[t].run = 0 => own[t].after = own[t].before + 1
              /\ own[t].run >= 1 => own[t].after = own[t].before
    /\ \A t \in Threads :
          (pc[t] = "ret" /\ own[t].kind = "destroy" /\ own[t].run >= 1) =>
              own[t].after = own[t].base

\* A destroy has ended a run of two give_to_server calls.
C1_Witness ==
    \E t \in Threads :
        pc[t] = "ret" /\ own[t].kind = "destroy" /\ own[t].run >= 2

\* C2 (as claimed): handing the token over again while it is held is a
\* no-op: the engine never holds more than one reference on the token, and
\* over a run of hand-overs its references rise by exactly one.
C2_TokenGiveIdempotent ==
    /\ tokEngRefs <= 1
    /\ tokGives >= 1 => tokEngRefs = tokGiveBase + 1

\* C3: PvProxy::destroy calls the handler's destroy first and changes
\* ownership only after it: no ownership change is made while the handler
\* call is pending; when the method exists it has been called once by the
\* time ownership is settled; a held PV is released exactly once and its
\* flag cleared, whether the handler raised or not; a PV that is not held
\* is not released.
C3_DestroyOrder ==
    \A t \in Threads :
        /\ (op[t] = "destroy" /\ InFlight(t)) => own[t].kind = "none"
        /\ (op[t] = "destroy" /\ pc[t] = "ret") =>
              /\ own[t].kind = "destroy"
              /\ res1[t] \in {"ok", "raise"} => hcalls[t] = 1
              /\ res1[t] = "missing" => hcalls[t] = 0
              /\ own[t].held => own[t].after = own[t].before - 1
              /\ ~own[t].held => own[t].after = own[t].before
              /\ ~own[t].heldAfter

\* A destroy whose handler raised has released a held PV.
C3_Witness ==
    \E t \in Threads :
        /\ op[t] = "destroy" /\ pc[t] = "ret"
        /\ res1[t] = "raise" /\ own[t].held /\ own[t].changed

\* C4: the bridge never releases more references of a PV than it took
\* (the engine's outstanding references never go below zero), and a
\* destroy that directly follows another destroy, or precedes every
\* registration, releases nothing.
C4_NoDoubleRelease ==
    /\ pvEngRefs >= 0
    /\ \A t \in Threads :
          (pc[t] = "ret" /\ own[t].kind = "destroy"
             /\ own[t].prev \in {"destroy", "init"}) => ~own[t].changed

\* A second consecutive destroy has returned.
C4_Witness ==
    \E t \in Threads :
        pc[t] = "ret" /\ own[t].kind = "destroy" /\ own[t].prev = "destroy"

\* C5 (as claimed): the stored name is the name passed at construction
\* in every state, and getName() never answers anything else.
C5_NameFixed ==
    /\ pvAlive => pvName = pvCtorName
    /\ gotName \in {"none", pvCtorName}

\* C6: the token is one-shot.  Over any sequence of complete() and fail()
\* calls at most one call changes the completion state the engine sees, and
\* it is the first one; every call returns None (the redundant post of a
\* later call is not an error); a call changes neither the engine-retained
\* flag nor a reference count, and a later call does not change the
\* recorded status.
C6_OneShot ==
    /\ [](/\ tokEffects <= 1
          /\ tokPosts >= 1 => (tokPosted /\ tokEffects = 1 /\ postRet = "None"))
    /\ [][tokPosts' # tokPosts =>
            /\ tokHeld' = tokHeld
            /\ tokEngRefs' = tokEngRefs
            /\ tokAlive' = tokAlive
            /\ ~crashed'
            /\ tokPosts >= 1 => tokStatus' = tokStatus]_vars

\* complete() and then fail() (or more) were called: the status is still
\* the first one.
C6_Witness ==
    tokPosts >= 2 /\ postRet = "None" /\ tokStatus = "S_casApp_success"

\* C7 (as claimed): a write whose handler returned a completion token
\* returns the pending status to the engine.
C7_TokenPending ==
    \A t \in Threads :
        (pc[t] = "ret" /\ op[t] = "write" /\ res1[t] = "token") =>
            ret[t] = "S_casApp_asyncCompletion"

\* C8: every native callback takes the lock once before its first handler
\* call and has given it back when it returns, on every path; a handler
\* method runs only while its callback's thread holds the lock; no thread
\* holds the lock outside a callback.
C8_LockScoped ==
    \A t \in Threads :
        /\ pc[t] = "handler" => (gil = t /\ acq[t] = 1 /\ rel[t] = 0)
        /\ pc[t] = "yielded" => (gil # t /\ acq[t] = 1 /\ rel[t] = 0)
        /\ pc[t] = "ret" => (gil # t /\ acq[t] = 1 /\ rel[t] = 1)
        /\ pc[t] \in {"idle", "ensure"} => (gil # t /\ acq[t] = 0 /\ rel[t] = 0)
        /\ hcalls[t] > 0 => acq[t] = 1

\* One callback has returned on the conversion-failure path, with the
\* lock free again, while the callback of the other thread, whose handler
\* raised, has returned as well.
C8_Witness ==
    \E t, u \in Threads :
        /\ pc[t] = "ret" /\ res1[t] = "convfail"
        /\ pc[u] = "ret" /\ res1[u] = "raise" /\ op[u] = "pvAttach"
        /\ gil = NoThread

\* C9: while process() services the engine's I/O its thread does not hold
\* the lock, nor while it waits to take it back; the lock is only ever
\* held by a thread that is running handler code (which gives it back), so
\* no thread waiting for the lock waits on the caller of process(), and in
\* every state in which a thread is inside a call some step is possible.
C9_ProcessReleasesLock ==
    /\ \A t \in Threads : pc[t] \in {"servicing", "reacquire"} => gil # t
    /\ gil # NoThread => pc[gil] = "handler"
    /\ (\E t \in Threads : pc[t] # "idle") => ENABLED NextProcess

\* While one thread is inside process(), a callback on another thread
\* holds the lock and runs its handler.
C9_Witness ==
    \E t, u \in Threads :
        /\ pc[t] = "servicing"
        /\ pc[u] = "handler" /\ gil = u /\ base[u] = "servicing"

\* C10: the write callback returns success when the handler's write
\* returned a true value, and NoSupport when it returned a false value,
\* raised, is missing, or the incoming value could not be converted.
C10_WriteStatus ==
    \A t \in Threads :
        (pc[t] = "ret" /\ op[t] = "write") =>
            /\ res1[t] = "true" => ret[t] = "S_casApp_success"
            /\ res1[t] \in {"false", "raise", "missing", "convfail"} =>
                  ret[t] = "S_casApp_noSupport"

\* One write has returned after a true answer, another after an exception.
C10_Witness ==
    \E t, u \in Threads :
        /\ pc[t] = "ret" /\ op[t] = "write" /\ res1[t] = "true"
        /\ pc[u] = "ret" /\ op[u] = "write" /\ res1[u] = "raise"

\* C11: the read callback returns success only when type() gave a valid
\* element type, read() returned a result that is not None, and the
\* conversion into the prototype succeeded; when the type lookup or call
\* fails or gives no valid type, read() is not called, and in every case
\* but the first the callback returns NoSupport.
C11_ReadStatus ==
    \A t \in Threads :
        (pc[t] = "ret" /\ op[t] = "read") =>
            /\ ret[t] \in {"S_casApp_success", "S_casApp_noSupport"}
            /\ ret[t] = "S_casApp_success" <=> (res1[t] \in TypeSyms /\ res2[t] = "attrs")
            /\ res1[t] \in {"missing", "raise", "garbage"} =>
                  (hcalls[t] <= 1 /\ ret[t] = "S_casApp_noSupport")
            /\ res2[t] \in {"missing", "raise", "None", "badattrs"} =>
                  ret[t] = "S_casApp_noSupport"

\* One read has returned success, another NoSupport after a None result.
C11_Witness ==
    \E t, u \in Threads :
        /\ pc[t] = "ret" /\ op[t] = "read" /\ ret[t] = "S_casApp_success"
        /\ pc[u] = "ret" /\ op[u] = "read" /\ res2[u] = "None"
        /\ ret[u] = "S_casApp_noSupport"

\* C12: postEvent releases the value container exactly once on every path
\* that allocated it (conversion failure, exception of the engine's
\* postEvent, success) and allocates none on the paths that fail before;
\* after every call the containers allocated equal the containers
\* released, none is left, and a call with an empty or unparseable mask
\* does not report success.
C12_EventContainer ==
    /\ evAlloc = evFreed
    /\ gddLive = 0
    /\ evPath \in {"convfail", "throw", "ok"} => (evAlloc = 1 /\ evFreed = 1)
    /\ evPath \in {"args", "notype", "typeraise", "badtype", "noserver", "badmask"} =>
          (evAlloc = 0 /\ evFreed = 0)
    /\ evMask \in {"empty", "garbage"} => evRet \in {"NULL"}
    /\ evRet = "None" <=> evPath = "ok"

\* The engine's postEvent threw and the container was released.
C12_Witness ==
    evPath = "throw" /\ evRet = "RuntimeError" /\ evAlloc = 1 /\ evFreed = 1

\* C13: pvExistTest returns EXISTS_HERE exactly when the handler returned
\* the EXISTS_HERE member; for a missing method, an exception or any other
\* value it returns NOT_EXISTS_HERE, and so it does with the inherited
\* default method.
C13_ExistTest ==
    \A t \in Threads :
        (pc[t] = "ret" /\ op[t] = "pvExistTest") =>
            /\ ret[t] = "pverExistsHere" <=> res1[t] = "EXISTS_HERE"
            /\ res1[t] \in {"missing", "raise", "garbage", "NOT_EXISTS_HERE"} =>
                  ret[t] = "pverDoesNotExistHere"
            /\ dflt[t] => ret[t] = "pverDoesNotExistHere"

\* One pvExistTest has returned from the default method, another after the
\* handler answered EXISTS_HERE.
C13_Witness ==
    \E t, u \in Threads :
        /\ pc[t] = "ret" /\ op[t] = "pvExistTest" /\ dflt[t]
        /\ pc[u] = "ret" /\ op[u] = "pvExistTest" /\ ret[u] = "pverExistsHere"

\* C14: pvAttach returns NotFound when the handler's pvAttach is missing,
\* raises, returns NOT_FOUND or returns a value that maps to nothing; it
\* returns NoMemory only when the handler returned NO_MEMORY; the inherited
\* default method gives NotFound.
C14_AttachStatus ==
    \A t \in Threads :
        (pc[t] = "ret" /\ op[t] = "pvAttach") =>
            /\ res1[t] \in {"missing", "raise", "NOT_FOUND", "garbage"} =>
                  ret[t] = "S_casApp_pvNotFound"
            /\ ret[t] = "S_casApp_noMemory" <=> res1[t] = "NO_MEMORY"
            /\ dflt[t] => ret[t] = "S_casApp_pvNotFound"

\* One pvAttach has returned NotFound for an overriding handler that
\* answered NOT_FOUND, another NoMemory.
C14_Witness ==
    \E t, u \in Threads :
        /\ pc[t] = "ret" /\ op[t] = "pvAttach" /\ res1[t] = "NOT_FOUND" /\ ~dflt[t]
        /\ ret[t] = "S_casApp_pvNotFound"
        /\ pc[u] = "ret" /\ op[u] = "pvAttach" /\ ret[u] = "S_casApp_noMemory"

\* C15 (as claimed): a token is constructed only from a capsule whose
\* write call is still running; a capsule whose call has returned is
\* rejected with InvalidContext and no native completion object is made;
\* an argument that is no capsule is rejected with a type error.
C15_LiveContextOnly ==
    /\ initRet = "ok" => initCtx = "live"
    /\ initCtx = "stale" => (initRet = "InvalidContext" /\ ~initNative)
    /\ initRet = "TypeError" => ~initNative

\* C16: the token's teardown releases one reference iff the token is
\* marked as held, and leaves the mark cleared; a teardown of a token that
\* was never given, or one that follows another teardown, releases nothing.
C16_TokenTeardown ==
    \A t \in Threads :
        (pc[t] = "ret" /\ own[t].kind = "tokenDestroy") =>
            /\ ~own[t].heldAfter
            /\ own[t].held => own[t].after = own[t].before - 1
            /\ ~own[t].held => own[t].after = own[t].before
            /\ own[t].prev \in {"init", "destroy"} => ~own[t].changed

\* One teardown has released a held token, another one, which followed a
\* teardown, has returned.
C16_Witness ==
    \E t, u \in Threads :
        /\ pc[t] = "ret" /\ own[t].kind = "tokenDestroy" /\ own[t].held /\ own[t].changed
        /\ pc[u] = "ret" /\ own[u].kind = "tokenDestroy" /\ own[u].prev = "destroy"

\* C17: destroy and interestDelete swallow a handler failure.  When the
\* method is missing or raises, one report is written to the diagnostic
\* sink, no error indicator is pending when the callback returns, the
\* callback returns normally (it never faults), and nothing is reported
\* when the handler succeeded; no error is pending outside callbacks.
C17_FailureSwallowed ==
    \A t \in Threads :
        /\ pc[t] \in {"idle", "servicing", "ret"} => ~err[t]
        /\ op[t] \in {"destroy", "interestDelete"} => pc[t] # "fault"
        /\ (pc[t] = "ret" /\ op[t] \in {"destroy", "interestDelete"}) =>
              /\ ret[t] = "void"
              /\ res1[t] \in {"raise", "missing"} => sink[t] = 1
              /\ res1[t] = "ok" => sink[t] = 0

\* A destroy whose handler raised and an interestDelete whose method is
\* missing have both returned, each with its report written.
C17_Witness ==
    \E t, u \in Threads :
        /\ pc[t] = "ret" /\ op[t] = "destroy" /\ res1[t] = "raise" /\ sink[t] = 1
        /\ pc[u] = "ret" /\ op[u] = "interestDelete" /\ res1[u] = "missing"
        /\ sink[u] = 1

\* C18: bestExternalType returns the element type of the type symbol the
\* handler's type() returned, and the string type when the method is
\* missing, raises, or returns something that is no type symbol.
C18_BestExternalType ==
    \A t \in Threads :
        (pc[t] = "ret" /\ op[t] = "bestExternalType") =>
            /\ res1[t] \in TypeSyms =>
                  (ret[t] = ToAitEnum(res1[t]) /\ ret[t] # "aitEnumInvalid")
            /\ res1[t] \in {"missing", "raise", "garbage"} => ret[t] = "aitEnumString"

\* One call has returned the 32 bit integer type, another fell back to the
\* string type after a value that is no type symbol.
C18_Witness ==
    \E t, u \in Threads :
        /\ pc[t] = "ret" /\ op[t] = "bestExternalType" /\ ret[t] = "aitEnumInt32"
        /\ pc[u] = "ret" /\ op[u] = "bestExternalType" /\ res1[u] = "garbage"
        /\ ret[u] = "aitEnumString"

\* C19 (as claimed): for every integer count the handler returns,
\* maxDimension returns 1 if count > 1 and 0 otherwise, and maxBound
\* returns that same count.
C19_CountExported ==
    \A t \in Threads :
        (pc[t] = "ret" /\ res1[t] = "int") =>
            /\ op[t] = "maxDimension" =>
                  rnum[t] = ToUnsigned(IF ival[t] > 1 THEN 1 ELSE 0)
            /\ op[t] = "maxBound" => (rnum[t][1] = 0 /\ rnum[t][2] = ival[t])

\* C20: getName() neither takes the lock nor calls a handler: it can be
\* taken in every state in which its thread is not inside a callback,
\* whoever holds the lock, and the step changes nothing but the value
\* read, which is the stored name; the lock and every thread's position
\* and handler-call count stay as they were.
C20_GetNameLockFree ==
    /\ [](\A t \in Threads :
            (~crashed /\ pvAlive /\ pc[t] \in {"idle", "servicing"}) =>
                ENABLED GetName(t))
    /\ [][(gotName' # gotName \/ gotLocked' # gotLocked) =>
            /\ gotName' = pvName
            /\ gil' = gil
            /\ thrVars' = thrVars
            /\ errVars' = errVars]_vars

\* getName() has returned the stored name while a thread running a
\* handler held the lock, and that thread still holds it.
C20_Witness ==
    /\ gotLocked /\ gotName = pvName
    /\ gil # NoThread

\* C21: a PV whose handler overrides nothing is a scalar string PV that
\* rejects all access: with the inherited methods bestExternalType is the
\* string type, maxDimension is 0, maxBound is 1, and read, write and
\* interestRegister return NoSupport.
C21_DefaultPv ==
    \A t \in Threads :
        (pc[t] = "ret" /\ dflt[t]) =>
            /\ op[t] = "bestExternalType" => ret[t] = "aitEnumString"
            /\ op[t] = "maxDimension" => rnum[t] = ToUnsigned(0)
            /\ op[t] = "maxBound" => rnum[t] = ToUnsigned(1)
            /\ op[t] \in {"read", "write", "interestRegister"} =>
                  ret[t] = "S_casApp_noSupport"

\* A read that went through the inherited type() and read() and a maxBound
\* that went through the inherited count() have returned.
C21_Witness ==
    \E t, u \in Threads :
        /\ pc[t] = "ret" /\ dflt[t] /\ op[t] = "read" /\ hcalls[t] = 2
        /\ pc[u] = "ret" /\ dflt[u] /\ op[u] = "maxBound"

\* C22: interestRegister returns success when the handler's
\* interestRegister returned a true value and NoSupport when it returned a
\* false value, raised or is missing; interestDelete calls the handler's
\* interestDelete when it is there and returns no status in any case.
C22_InterestStatus ==
    \A t \in Threads :
        /\ (pc[t] = "ret" /\ op[t] = "interestRegister") =>
              /\ res1[t] = "true" => ret[t] = "S_casApp_success"
              /\ res1[t] \in {"false", "raise", "missing"} =>
                    ret[t] = "S_casApp_noSupport"
        /\ (pc[t] = "ret" /\ op[t] = "interestDelete") =>
              /\ ret[t] = "void"
              /\ res1[t] \in {"ok", "raise"} => hcalls[t] = 1
              /\ res1[t] = "missing" => hcalls[t] = 0

\* An interestRegister has returned NoSupport after a false answer, and an
\* interestDelete whose handler raised has returned.
C22_Witness ==
    \E t, u \in Threads :
        /\ pc[t] = "ret" /\ op[t] = "interestRegister" /\ res1[t] = "false"
        /\ ret[t] = "S_casApp_noSupport"
        /\ pc[u] = "ret" /\ op[u] = "interestDelete" /\ res1[u] = "raise"

\* C23: process() returns None for every argument that converts to a
\* number and an error only for one that does not; the call with such an
\* argument neither drives the engine nor lets the lock go; a call that
\* drives the engine returns (given that the servicing ends, handlers
\* return and the lock is handed on).
C23_ProcessReturns ==
    /\ [](\A t \in Threads :
            /\ procRet[t] = "error" => procArg[t] = "notnumber"
            /\ procRet[t] = "None" => procArg[t] = "number"
            /\ procArg[t] = "notnumber" => procRet[t] = "error"
            /\ (pc[t] \in {"servicing", "reacquire"} \/ base[t] = "servicing") =>
                  (procArg[t] = "number" /\ procRet[t] = "none"))
    /\ [][\A t \in Threads :
            (procArg'[t] = "notnumber" /\ procArg[t] # "notnumber") =>
                (gil' = gil /\ pc' = pc)]_vars
    /\ \A t \in Threads :
          (procArg[t] = "number" /\ procRet[t] = "none") ~> (procRet[t] = "None")

\* One process() call has returned None, another an error.
C23_Witness ==
    \E t, u \in Threads :
        /\ procRet[t] = "None" /\ pc[t] = "idle"
        /\ procRet[u] = "error" /\ pc[u] = "idle"

\* C24 (as claimed): in every state the engine-retained flag of the PV
\* and of the token is true exactly when one reference taken for the
\* engine is outstanding, and the engine never has more than one.
C24_FlagMatchesRefs ==
    /\ pvAlive => (pvHeld <=> pvEngRefs = 1)
    /\ pvEngRefs <= 1
    /\ tokAlive => (tokHeld <=> tokEngRefs = 1)
    /\ tokEngRefs <= 1

\* C25: the test of the engine-retained flag, its change and the matching
\* change of the reference count are one step, made by a thread inside a
\* destroy or pvAttach callback with the lock: a retain is made only with
\* the flag clear and sets it, a release only with the flag set and clears
\* it, and the flag never changes without the count; so between two retains
\* there is a release and between two releases a retain.
C25_AtomicOwnership ==
    [][/\ pvEngRefs' > pvEngRefs => (~pvHeld /\ pvHeld' /\ pvEngRefs' = pvEngRefs + 1)
       /\ pvEngRefs' < pvEngRefs => (pvHeld /\ ~pvHeld' /\ pvEngRefs' = pvEngRefs - 1)
       /\ pvHeld' # pvHeld => pvEngRefs' # pvEngRefs
       /\ (pvHeld' # pvHeld \/ pvEngRefs' # pvEngRefs) =>
             \E t \in Threads :
                 /\ pc[t] \in {"ensure", "handler"}
                 /\ pc'[t] = "ret"
                 /\ op[t] \in {"destroy", "pvAttach"}
                 /\ gil \in {t, NoThread}
                 /\ \A u \in Threads \ {t} : pc'[u] = pc[u]]_vars

\* A pvAttach on one thread has retained the PV and a destroy on the other
\* thread, coming after it, has released it.
C25_Witness ==
    \E t, u \in Threads :
        /\ pc[t] = "ret" /\ own[t].kind = "give" /\ own[t].changed
        /\ pc[u] = "ret" /\ own[u].kind = "destroy" /\ own[u].changed
        /\ own[u].prev = "give"

\* C26: complete() and fail() called from two host threads at once reach
\* the engine one after the other: a thread inside the method holds the
\* lock and no other thread is inside it; both calls return None; exactly
\* one post has set the completion status, and a post that comes after it
\* does not change it.
C26_ConcurrentPosts ==
    /\ [](/\ \A t \in Threads :
               /\ pc[t] = "posting" =>
                     (gil = t /\ \A u \in Threads \ {t} : pc[u] # "posting")
               /\ pc[t] = "posted" => (ret[t] = "None" /\ tokPosted /\ tokEffects = 1)
           /\ tokEffects <= 1
           /\ ~crashed)
    /\ [][tokPosted => (tokPosted' /\ tokStatus' = tokStatus)]_vars

\* complete() on one thread and fail() on the other have both returned, and
\* the status is the one of fail(), which came first.
C26_Witness ==
    \E t, u \in Threads :
        /\ pc[t] = "posted" /\ op[t] = "complete"
        /\ pc[u] = "posted" /\ op[u] = "fail"
        /\ tokStatus = "S_casApp_canceledAsyncIO"

\* C27: the read callback calls the handler's type() before its read(),
\* and does not call read() when type() gave no valid element type: while
\* the first call runs nothing of read() is there; the second call runs
\* only after a valid type; a read that ends on an invalid type has made
\* one handler call at most.
C27_TypeBeforeRead ==
    \A t \in Threads :
        op[t] = "read" =>
            /\ (pc[t] \in {"handler", "yielded"} /\ stage[t] = 1) =>
                  (hcalls[t] = 1 /\ res1[t] = "none" /\ res2[t] = "none")
            /\ stage[t] = 2 => (hcalls[t] = 2 /\ res1[t] \in TypeSyms)
            /\ (pc[t] = "ret" /\ res1[t] \notin TypeSyms) =>
                  (hcalls[t] <= 1 /\ res2[t] = "none")
            /\ (pc[t] = "ret" /\ hcalls[t] = 2) => res1[t] \in TypeSyms

\* One read has ended after a type() that gave no type symbol, without
\* calling read(); on the other thread read() runs after a valid type.
C27_Witness ==
    \E t, u \in Threads :
        /\ pc[t] = "ret" /\ op[t] = "read" /\ res1[t] = "garbage" /\ hcalls[t] = 1
        /\ pc[u] = "handler" /\ op[u] = "read" /\ stage[u] = 2

\* C28: the token keeps nothing of the capsule it was constructed from,
\* and complete() and fail() read neither the capsule nor the context it
\* points to: a post leaves the capsule alone, never faults and returns
\* None, also after the write call of the capsule has returned.
C28_TokenKeepsNoCapsule ==
    /\ [](tokKeeps = "none" /\ postRet \in {"none", "None"})
    /\ [][tokPosts' # tokPosts =>
            (ctx' = ctx /\ ~crashed' /\ postRet' = "None")]_vars

\* A token constructed from a live capsule was completed after the write
\* call of the capsule had returned.
C28_Witness ==
    /\ initRet = "ok" /\ initCtx = "live"
    /\ postCtx = "stale" /\ postRet = "None" /\ tokPosted

\* C29 (as claimed): when the truth test of the value the handler's write
\* or interestRegister returned fails, the callback returns NoSupport and
\* leaves no error pending.
C29_TruthTestFailure ==
    \A t \in Threads :
        (pc[t] = "ret" /\ op[t] \in {"write", "interestRegister"}
           /\ res1[t] = "truthErr") =>
            (ret[t] = "S_casApp_noSupport" /\ ~err[t])

\* C30 (as claimed): when count() raises or returns something that is no
\* integer, maxDimension and maxBound return 0, write a report to the
\* diagnostic sink, release the lock and return; neither faults on the
\* absent result.
C30_CountFailure ==
    \A t \in Threads :
        op[t] \in {"maxDimension", "maxBound"} =>
            /\ pc[t] # "fault"
            /\ (pc[t] = "ret" /\ res1[t] \in {"raise", "nonint"}) =>
                  /\ rnum[t] = ToUnsigned(0)
                  /\ sink[t] >= 1
                  /\ ~err[t]
                  /\ gil # t

\* C32 (as claimed): whenever postEvent returns the failure result an
\* error indicator is set for the host caller, the exits for a type that
\* maps to the invalid type and for a PV attached to no server included.
C32_PostEventFailureReported ==
    evRet \in {"NULL", "RuntimeError"} => evErr

\* Teardown of both objects: hand-over, the engine's destroy calls, host
\* code letting go.
NextTeardown ==
    \/ CbCore({"destroy", "pvAttach", "tokenDestroy"})
    \/ GiveAsyncWrite
    \/ HostDropPv
    \/ HostDropToken

SpecTeardown == Init /\ [][NextTeardown]_vars

\* C31: the release inside a teardown callback may free the object and
\* its proxy while the callback still runs; after that release the
\* callback uses no field of the object or of the proxy, and no proxy is
\* ever deallocated while the engine-retained flag is true.
C31_TeardownRelease ==
    /\ ~touchedFreed
    /\ ~deallocHeld
    /\ (~pvAlive /\ ~crashed) => pvEngRefs = 0
    /\ (~tokAlive /\ ~crashed) => tokEngRefs = 0
    /\ \A t \in Threads :
          (pc[t] = "ret" /\ op[t] \in {"destroy", "tokenDestroy"}) =>
              /\ ~own[t].heldAfter
              /\ (gil # t \/ gst[t] = "LOCKED")

\* The releases of both teardown callbacks freed their objects while the
\* callbacks had not returned yet.
C31_Witness ==
    \E t, u \in Threads :
        /\ pc[t] = "ret" /\ op[t] = "destroy"
        /\ own[t].changed /\ own[t].held
        /\ ~pvAlive
        /\ pc[u] = "ret" /\ op[u] = "tokenDestroy"
        /\ own[u].changed /\ own[u].held
        /\ ~tokAlive

====
